---- MODULE Spec2Model ----
(***************************************************************************)
(* medium_api: the lazy entity handles Publication, Newsletter and         *)
(* TopFeeds and the time-windowed paging of                                *)
(* Publication.get_articles_between, as a state machine.  The collaborators*)
(* get_resp and fetch_articles are the environment: get_resp answers a     *)
(* request with a response of the server's choosing or raises,             *)
(* fetch_articles records the list it was handed.                          *)
(*                                                                         *)
(* A datetime is a number of ticks; the server's `to` string has the       *)
(* format '%Y-%m-%d %H:%M:%S' and so carries whole seconds only.           *)
(* An optional value is None (the empty sequence) or <<v>>.                *)
(***************************************************************************)
EXTENDS Integers, Sequences, FiniteSets, TLC

\* ---- bounds of the model ------------------------------------------------
MaxPages == 2      \* most page requests within one call
MaxCalls == 2      \* most get_articles_between calls in one run
MaxFail == 1       \* most get_resp failures in one run
NumPubs == 1       \* Publication instances 1..NumPubs

\* ---- program constants --------------------------------------------------
maxsize == 16      \* @lru_cache(maxsize=16)
TicksPerSec == 2   \* a datetime is finer than the one second of '%S'

None == <<>>
Some(v) == <<v>>

Secs == {0, 1, 2}                    \* the `to` values the server reports
Ids == {1, 2}                        \* article identifiers
Pubs == 1..NumPubs
\* further Publication instances, of publications that hold no article
OtherPubs == {NumPubs + 1, NumPubs + 2}
FromArgs == {None, Some(2), Some(4)} \* the _from a caller passes
ToArgs == {None, Some(2), Some(3)}   \* the _to a caller passes
Nows == {3, 4}                       \* the values datetime.now() takes
\* the TopFeeds handles: TopFeeds(tag, mode, ...)
Feeds == {[tag |-> "ai", mode |-> "hot"], [tag |-> "ai", mode |-> "new"]}
MaxLens == {None, Some(1)}           \* the max_len a caller passes

\* datetime.strptime(resp['to'], '%Y-%m-%d %H:%M:%S'): whole seconds to a datetime
strptime(s) == s * TicksPerSec

\* _from.isoformat(): the datetime at full resolution, as the text put in the URL
isoformat(d) == [sec |-> d \div TicksPerSec, frac |-> d % TicksPerSec]

\* article.published_at: article i was published at second i
published_at(article) == article.article_id * TicksPerSec

\* reversal of a list, seq[::-1]
Reverse(s) == [i \in 1..Len(s) |-> s[Len(s) + 1 - i]]

\* Article(article_id=..., get_resp=..., fetch_articles=..., fetch_users=...)
Article(i) == [article_id |-> i]

\* Publication.articles_from_ids
articles_from_ids(article_ids) == [k \in 1..Len(article_ids) |-> Article(article_ids[k])]

\* ---- resource paths -----------------------------------------------------
PublicationPath(p) == [kind |-> "publication", id |-> p]
NewsletterPath(p) == [kind |-> "newsletter", id |-> p]
UserPath(u) == [kind |-> "user", id |-> u]
ArticlesPath(p, d) == [kind |-> "articles", id |-> p, from |-> isoformat(d)]
TopFeedsPath(h) == [kind |-> "topfeeds", tag |-> h.tag, mode |-> h.mode]

\* ---- what the server may answer -----------------------------------------
\* '/publication/{id}': a full mapping, or one that lacks the documented keys
PublicationInfos(p) ==
    { [name |-> "n", creator |-> 10 * p, editors |-> <<10 * p + 1>>],
      [id |-> p] }
\* '/publication/{id}/newsletter'
NewsletterInfos(p) ==
    { [id |-> p, name |-> "n", creator_id |-> 10 * p],
      [name |-> "n"] }

DistinctSeqs(S, n) == { s \in UNION { [1..k -> S] : k \in 0..n } :
                          \A i, j \in 1..Len(s) : i # j => s[i] # s[j] }
\* '/publication/{id}/articles?from=...': a page of identifiers and its `to`
PageResponses == { [publication_articles |-> ids, to |-> s] :
                     ids \in DistinctSeqs(Ids, Cardinality(Ids)), s \in Secs }

\* '/topfeeds/{tag}/{mode}': the identifier list
TopFeedsResponses == { [topfeeds |-> ids] : ids \in DistinctSeqs(Ids, Cardinality(Ids)) }

VARIABLES
    clock,      \* datetime.now()
    info,       \* Publication.__info, per instance
    attrs,      \* Publication.name ... editors, set by save_info
    nl_info,    \* Newsletter.__info, per publication's newsletter
    nl_attrs,   \* Newsletter.id ... creator, set by save_info
    articles,   \* Publication.__articles
    cache,      \* the lru_cache of get_articles_between, least recent first
    pc,         \* position of the running get_articles_between call
    frame,      \* its locals: self, arguments, _from, articles, next_to
    op,         \* the operation that runs or ran last
    outcome,    \* "running", "returned" or "raised"
    ret,        \* the value the last operation returned
    reqs,       \* get_resp calls of the operation, in order: path, ok, resp
    fetched,    \* fetch_articles calls of the operation, in order
    okcount,    \* successful get_resp calls per info path (history)
    firstresp,  \* the first mapping each info path answered with (history)
    hist,       \* the returned calls in order: key and result (history)
    calls,      \* get_articles_between calls on the instances of Pubs (history)
    fails,      \* failed get_resp calls so far (history)
    topfeeds,   \* TopFeeds.__ids and TopFeeds.__articles, per handle
    tf_hist     \* per TopFeeds handle: lists built, successful get_resp calls

vars == <<clock, info, attrs, nl_info, nl_attrs, articles, cache, pc, frame,
          op, outcome, ret, reqs, fetched, okcount, firstresp, hist, calls, fails,
          topfeeds, tf_hist>>
tfvars == <<topfeeds, tf_hist>>

NoAttrs == [name |-> None, creator |-> None, editors |-> None]
NoNlAttrs == [id |-> None, name |-> None, creator |-> None]
NoFrame == [self |-> 0, from_arg |-> None, to_arg |-> None, _from |-> 0,
            articles |-> <<>>, next_to |-> 0, via_property |-> FALSE]

InfoPaths == {PublicationPath(p) : p \in Pubs} \cup {NewsletterPath(p) : p \in Pubs}

Init ==
    /\ clock = CHOOSE n \in Nows : \A m \in Nows : n <= m
    /\ info = [p \in Pubs |-> None]
    /\ attrs = [p \in Pubs |-> NoAttrs]
    /\ nl_info = [p \in Pubs |-> None]
    /\ nl_attrs = [p \in Pubs |-> NoNlAttrs]
    /\ articles = [p \in Pubs \cup OtherPubs |-> None]
    /\ cache = <<>>
    /\ pc = "idle"
    /\ frame = NoFrame
    /\ op = [name |-> "init", self |-> 0]
    /\ outcome = "returned"
    /\ ret = None
    /\ reqs = <<>>
    /\ fetched = <<>>
    /\ okcount = [q \in InfoPaths |-> 0]
    /\ firstresp = [q \in InfoPaths |-> None]
    /\ hist = <<>>
    /\ calls = 0
    /\ fails = 0
    /\ topfeeds = [h \in Feeds |-> [ids |-> None, articles |-> None]]
    /\ tf_hist = [h \in Feeds |-> [built |-> 0, ok |-> 0]]

\* datetime.now() advances
Tick ==
    /\ clock + 1 \in Nows
    /\ clock' = clock + 1
    /\ UNCHANGED <<info, attrs, nl_info, nl_attrs, articles, cache, pc, frame,
                   op, outcome, ret, reqs, fetched, okcount, firstresp, hist,
                   calls, fails>>
    /\ UNCHANGED tfvars

\* ---- the lazy entity handles --------------------------------------------
Min(a, b) == IF a < b THEN a ELSE b
Bump(f, q) == [f EXCEPT ![q] = Min(@ + 1, 2)]
First(f, q, resp) == [f EXCEPT ![q] = IF @ = None THEN Some(resp) ELSE @]

\* a property that never looks at its cache
info_always_unset(cached) == TRUE

\* `if self.__info is None:` - the raw-response cache is still unset
info_is_unset(cached) == cached = None

\* The get_resp calls of one handler: `plan` lists the paths it requests when
\* every call succeeds; the first nok of them succeed and, when nok is short
\* of the plan, the next one raises and ends the handler.
Requests(plan, nok) ==
    [k \in 1..Min(nok + 1, Len(plan)) |-> [path |-> plan[k], ok |-> k <= nok]]

\* Publication.info, the property
InfoRead(p) ==
    /\ pc = "idle"
    /\ op' = [name |-> "Publication.info", self |-> p]
    /\ \/ /\ ~info_is_unset(info[p])
          /\ reqs' = <<>>
          /\ outcome' = "returned"
          /\ ret' = info[p]
          /\ UNCHANGED <<info, okcount, firstresp, fails>>
       \/ /\ info_is_unset(info[p])
          /\ \E resp \in PublicationInfos(p) :
                /\ info' = [info EXCEPT ![p] = Some(resp)]
                /\ ret' = Some(resp)
                /\ firstresp' = First(firstresp, PublicationPath(p), resp)
          /\ reqs' = Requests(<<PublicationPath(p)>>, 1)
          /\ okcount' = Bump(okcount, PublicationPath(p))
          /\ outcome' = "returned"
          /\ UNCHANGED fails
       \/ /\ info_is_unset(info[p])
          /\ fails < MaxFail
          /\ fails' = fails + 1
          /\ reqs' = Requests(<<PublicationPath(p)>>, 0)
          /\ outcome' = "raised"
          /\ ret' = None
          /\ UNCHANGED <<info, okcount, firstresp>>
    /\ UNCHANGED <<clock, attrs, nl_info, nl_attrs, articles, cache, pc, frame,
                   fetched, hist, calls>>
    /\ UNCHANGED tfvars

\* Newsletter.info, the property
NewsletterInfoRead(p) ==
    /\ pc = "idle"
    /\ op' = [name |-> "Newsletter.info", self |-> p]
    /\ \/ /\ ~info_is_unset(nl_info[p])
          /\ reqs' = <<>>
          /\ outcome' = "returned"
          /\ ret' = nl_info[p]
          /\ UNCHANGED <<nl_info, okcount, firstresp, fails>>
       \/ /\ info_is_unset(nl_info[p])
          /\ \E resp \in NewsletterInfos(p) :
                /\ nl_info' = [nl_info EXCEPT ![p] = Some(resp)]
                /\ ret' = Some(resp)
                /\ firstresp' = First(firstresp, NewsletterPath(p), resp)
          /\ reqs' = Requests(<<NewsletterPath(p)>>, 1)
          /\ okcount' = Bump(okcount, NewsletterPath(p))
          /\ outcome' = "returned"
          /\ UNCHANGED fails
       \/ /\ info_is_unset(nl_info[p])
          /\ fails < MaxFail
          /\ fails' = fails + 1
          /\ reqs' = Requests(<<NewsletterPath(p)>>, 0)
          /\ outcome' = "raised"
          /\ ret' = None
          /\ UNCHANGED <<nl_info, okcount, firstresp>>
    /\ UNCHANGED <<clock, info, attrs, nl_attrs, articles, cache, pc, frame,
                   fetched, hist, calls>>
    /\ UNCHANGED tfvars

\* User(user_id=..., save_info=True): the constructor materializes at once,
\* which requests '/user/{id}'
UserEagerPaths(user_ids) == [k \in 1..Len(user_ids) |-> UserPath(user_ids[k])]

\* Publication.save_info
SaveInfo(p) ==
    /\ pc = "idle"
    /\ op' = [name |-> "Publication.save_info", self |-> p]
    /\ \E publication \in (IF info_is_unset(info[p]) THEN PublicationInfos(p)
                                                      ELSE {info[p][1]}) :
         LET own == IF info_is_unset(info[p]) THEN <<PublicationPath(p)>> ELSE <<>>
             haskeys == {"name", "creator", "editors"} \subseteq DOMAIN publication
             users == IF haskeys
                        THEN UserEagerPaths(<<publication.creator>> \o publication.editors)
                        ELSE <<>>
             plan == own \o users
         IN \E nok \in 0..Len(plan) :
              LET failed == nok < Len(plan)
                  got == nok >= Len(own)
              IN /\ failed => fails < MaxFail
                 /\ fails' = IF failed THEN fails + 1 ELSE fails
                 /\ reqs' = Requests(plan, nok)
                 /\ info' = IF got THEN [info EXCEPT ![p] = Some(publication)] ELSE info
                 /\ okcount' = IF got /\ own # <<>>
                                 THEN Bump(okcount, PublicationPath(p)) ELSE okcount
                 /\ firstresp' = IF got /\ own # <<>>
                                   THEN First(firstresp, PublicationPath(p), publication)
                                   ELSE firstresp
                 /\ attrs' = IF got /\ haskeys
                       THEN [attrs EXCEPT ![p] =
                               [name |-> Some(publication.name),
                                creator |-> IF nok >= Len(own) + 1
                                              THEN Some(publication.creator)
                                              ELSE @.creator,
                                editors |-> IF ~failed
                                              THEN Some(publication.editors)
                                              ELSE @.editors]]
                       ELSE attrs
                 \* a failed get_resp or a KeyError on a missing key
                 /\ outcome' = IF failed \/ ~haskeys THEN "raised" ELSE "returned"
                 /\ ret' = None
    /\ UNCHANGED <<clock, nl_info, nl_attrs, articles, cache, pc, frame,
                   fetched, hist, calls>>
    /\ UNCHANGED tfvars

\* Newsletter.save_info
NewsletterSaveInfo(p) ==
    /\ pc = "idle"
    /\ op' = [name |-> "Newsletter.save_info", self |-> p]
    /\ \E newsletter \in (IF info_is_unset(nl_info[p]) THEN NewsletterInfos(p)
                                                        ELSE {nl_info[p][1]}) :
         LET plan == IF info_is_unset(nl_info[p]) THEN <<NewsletterPath(p)>> ELSE <<>>
             haskeys == {"id", "name", "creator_id"} \subseteq DOMAIN newsletter
         IN \E nok \in 0..Len(plan) :
              LET failed == nok < Len(plan)
              IN /\ failed => fails < MaxFail
                 /\ fails' = IF failed THEN fails + 1 ELSE fails
                 /\ reqs' = Requests(plan, nok)
                 /\ nl_info' = IF failed THEN nl_info
                                         ELSE [nl_info EXCEPT ![p] = Some(newsletter)]
                 /\ okcount' = IF ~failed /\ plan # <<>>
                                 THEN Bump(okcount, NewsletterPath(p)) ELSE okcount
                 /\ firstresp' = IF ~failed /\ plan # <<>>
                                   THEN First(firstresp, NewsletterPath(p), newsletter)
                                   ELSE firstresp
                 /\ nl_attrs' = IF ~failed /\ haskeys
                       THEN [nl_attrs EXCEPT ![p] =
                               [id |-> Some(newsletter.id),
                                name |-> Some(newsletter.name),
                                creator |-> Some(newsletter.creator_id)]]
                       ELSE nl_attrs
                 /\ outcome' = IF failed \/ ~haskeys THEN "raised" ELSE "returned"
                 /\ ret' = None
    /\ UNCHANGED <<clock, info, attrs, articles, cache, pc, frame, fetched,
                   hist, calls>>
    /\ UNCHANGED tfvars


\* ---- TopFeeds -----------------------------------------------------------
\* a property that never looks at its cached list
list_always_unset(cached) == TRUE

\* `if self.__ids is None:`, `if self.__articles is None:`
list_is_unset(cached) == cached = None

\* The ways the `ids` property can go: the held list without a request, or
\* one get_resp call that answers with a list or raises.
IdsOutcomes(h) ==
    IF ~list_is_unset(topfeeds[h].ids)
      THEN { [ok |-> TRUE, req |-> FALSE, ids |-> topfeeds[h].ids[1]] }
      ELSE { [ok |-> TRUE, req |-> TRUE, ids |-> resp.topfeeds] :
                resp \in TopFeedsResponses }
           \cup { [ok |-> FALSE, req |-> TRUE, ids |-> <<>>] }

\* the get_resp calls and the counters of one pass through `ids`
IdsEffects(h, o) ==
    /\ ~o.ok => fails < MaxFail
    /\ fails' = IF o.ok THEN fails ELSE fails + 1
    /\ reqs' = IF o.req THEN Requests(<<TopFeedsPath(h)>>, IF o.ok THEN 1 ELSE 0)
                        ELSE <<>>

\* a list object: a new one on every construction, told apart by `obj`
ListObject(h, n, items) == [obj |-> <<h, n>>, items |-> items]

\* TopFeeds.ids, the property
TopFeedsIds(h) ==
    /\ pc = "idle"
    /\ op' = [name |-> "TopFeeds.ids", self |-> h]
    /\ \E o \in IdsOutcomes(h) :
         /\ IdsEffects(h, o)
         /\ topfeeds' = IF o.ok THEN [topfeeds EXCEPT ![h].ids = Some(o.ids)]
                                ELSE topfeeds
         /\ tf_hist' = IF o.ok /\ o.req
                         THEN [tf_hist EXCEPT ![h].ok = Min(@ + 1, 2)] ELSE tf_hist
         /\ outcome' = IF o.ok THEN "returned" ELSE "raised"
         /\ ret' = IF o.ok THEN Some(o.ids) ELSE None
    /\ fetched' = <<>>
    /\ UNCHANGED <<clock, info, attrs, nl_info, nl_attrs, articles, cache, pc,
                   frame, okcount, firstresp, hist, calls>>

\* The ways the `articles` property can go: the held list, or a list of
\* Article handles built from `self.ids`.
ArticlesOutcomes(h) ==
    IF ~list_is_unset(topfeeds[h].articles)
      THEN { [ok |-> TRUE, req |-> FALSE, new |-> FALSE,
              ids |-> topfeeds[h].ids[1], list |-> topfeeds[h].articles[1]] }
      ELSE { [ok |-> o.ok, req |-> o.req, new |-> o.ok, ids |-> o.ids,
              list |-> ListObject(h, Min(tf_hist[h].built + 1, 2),
                                  articles_from_ids(o.ids))] :
                o \in IdsOutcomes(h) }

\* what one pass through `articles` leaves in the handle
ArticlesEffects(h, a) ==
    /\ IdsEffects(h, a)
    /\ topfeeds' = IF a.new
          THEN [topfeeds EXCEPT ![h] = [ids |-> Some(a.ids), articles |-> Some(a.list)]]
          ELSE topfeeds
    /\ tf_hist' = IF a.new
          THEN [tf_hist EXCEPT ![h] =
                  [built |-> Min(@.built + 1, 2),
                   ok |-> IF a.req THEN Min(@.ok + 1, 2) ELSE @.ok]]
          ELSE tf_hist
    /\ outcome' = IF a.ok THEN "returned" ELSE "raised"

\* TopFeeds.articles, the property
TopFeedsArticles(h) ==
    /\ pc = "idle"
    /\ op' = [name |-> "TopFeeds.articles", self |-> h]
    /\ \E a \in ArticlesOutcomes(h) :
         /\ ArticlesEffects(h, a)
         /\ ret' = IF a.ok THEN Some(a.list) ELSE None
    /\ fetched' = <<>>
    /\ UNCHANGED <<clock, info, attrs, nl_info, nl_attrs, articles, cache, pc,
                   frame, okcount, firstresp, hist, calls>>

\* TopFeeds.fetch_articles(max_len, content, markdown)
TopFeedsFetchArticles(h, max_len, content, markdown) ==
    /\ pc = "idle"
    /\ op' = [name |-> "TopFeeds.fetch_articles", self |-> h, max_len |-> max_len,
              content |-> content, markdown |-> markdown]
    /\ \E a \in ArticlesOutcomes(h) :
         /\ ArticlesEffects(h, a)
         /\ fetched' = IF a.ok
               THEN <<[arg |-> a.list, after |-> Len(reqs'), max_len |-> max_len,
                       content |-> content, markdown |-> markdown]>>
               ELSE <<>>
    /\ ret' = None
    /\ UNCHANGED <<clock, info, attrs, nl_info, nl_attrs, articles, cache, pc,
                   frame, okcount, firstresp, hist, calls>>

\* ---- functools.lru_cache around get_articles_between --------------------
\* the key of a call: (self, _from, _to) as passed
make_key(self, from_arg, to_arg) == <<self, from_arg, to_arg>>

CacheIndex(c, key) ==
    IF \E k \in 1..Len(c) : c[k].key = key
      THEN CHOOSE k \in 1..Len(c) : c[k].key = key
      ELSE 0

Without(c, k) == [j \in 1..(Len(c) - 1) |-> IF j < k THEN c[j] ELSE c[j + 1]]

\* a hit moves the entry to the most recent end
cache_hit(c, key) ==
    LET k == CacheIndex(c, key) IN Append(Without(c, k), c[k])

\* a cache that keeps nothing, as with maxsize=0
cache_store_nothing(c, key, result) == c

\* a computed result is stored as most recent; a full cache drops its oldest
cache_store(c, key, result) ==
    LET grown == Append(c, [key |-> key, val |-> result])
    IN IF Len(grown) > maxsize THEN Tail(grown) ELSE grown

\* ---- Publication.get_articles_between -----------------------------------
\* `if _from is None: _from = datetime.now()`
default_from(from_arg, now) == IF from_arg = None THEN now ELSE from_arg[1]

\* `if _from and _to:` - a datetime is always true, None is false
both_given(_from, to_arg) == to_arg # None

\* the interval test that lets _to = _from through
valid_interval_or_equal(_from, _to) == _to <= _from

\* `if _to < _from:`
valid_interval(_from, _to) == _to < _from

\* a loop that never asks for a further page
loop_never_continues(next_to, _to) == FALSE

\* the loop test that goes on when next_to = _to
loop_continues_on_equal(next_to, _to) == next_to >= _to

\* `while next_to > _to:`
loop_continues(next_to, _to) == next_to > _to

\* a page of the paging loop taken as the server listed it
page_batch_as_listed(resp) == resp.publication_articles

\* `resp['publication_articles'][::-1]`, a page of the paging loop
page_batch(resp) == Reverse(resp.publication_articles)

\* the single page reversed as the pages of the loop are
single_batch_reversed(resp) == Reverse(resp.publication_articles)

\* `resp['publication_articles']`, the page of the call without `_to`
single_batch(resp) == resp.publication_articles

\* the filter with both bounds excluded
in_window_exclusive(article, _from, _to) ==
    _to < published_at(article) /\ published_at(article) < _from

\* the filter without its lower bound
in_window_no_lower(article, _from, _to) == published_at(article) <= _from

\* `[article for article in articles if (_to <= article.published_at <= _from)]`
in_window(article, _from, _to) ==
    _to <= published_at(article) /\ published_at(article) <= _from
window_filter(arts, _from, _to) ==
    SelectSeq(arts, LAMBDA article : in_window(article, _from, _to))

\* the collaborator handed the filtered list
fetch_argument_filtered(arts, _from, _to) == window_filter(arts, _from, _to)

\* `self.__fetch_articles(articles)`: the list handed to the collaborator
fetch_argument(arts, _from, _to) == arts

Remember(key, result) == Append(hist, [key |-> key, val |-> result])
\* the returned call before this one had the same arguments
Repeats(key) == hist # <<>> /\ hist[Len(hist)].key = key

\* the record of a call: its arguments, the clock at its entry, whether the
\* lru_cache answered it, whether the `articles` property made it, and whether
\* it repeats the call that returned last
CallOp(self, from_arg, to_arg, via, memo) ==
    [name |-> "get_articles_between", self |-> self,
     from_arg |-> from_arg, to_arg |-> to_arg, now |-> clock,
     _from |-> default_from(from_arg, clock), memo |-> memo, via |-> via,
     again |-> Repeats(make_key(self, from_arg, to_arg)),
     before |-> articles[self]]

\* `self.__articles = self.get_articles_between()` in the `articles` property
assigned_by_property(via, self, result, arts) ==
    IF via THEN [arts EXCEPT ![self] = Some(result)] ELSE arts

\* entry of a call; `via` tells a call made by the `articles` property, which
\* calls when the list is unset and passes no arguments
Callable(self, from_arg, to_arg, via) ==
    /\ pc = "idle"
    /\ calls < MaxCalls
    /\ via => /\ articles[self] = None
              /\ from_arg = None /\ to_arg = None

\* the call is answered by the lru_cache: the body does not run
CallHit(self, from_arg, to_arg, via) ==
    /\ Callable(self, from_arg, to_arg, via)
    /\ CacheIndex(cache, make_key(self, from_arg, to_arg)) # 0
    /\ LET key == make_key(self, from_arg, to_arg)
           result == cache[CacheIndex(cache, key)].val
       IN /\ cache' = cache_hit(cache, key)
          /\ hist' = Remember(key, result)
          /\ ret' = Some(result)
          /\ articles' = assigned_by_property(via, self, result, articles)
    /\ op' = CallOp(self, from_arg, to_arg, via, TRUE)
    /\ outcome' = "returned"
    /\ reqs' = <<>>
    /\ fetched' = <<>>
    /\ calls' = calls + 1
    /\ UNCHANGED <<clock, info, attrs, nl_info, nl_attrs, pc, frame, okcount,
                   firstresp, fails>>
    /\ UNCHANGED tfvars

\* a rejected call that keeps its empty list as the articles state
CallInvalidKeepsEmpty(self, from_arg, to_arg, via) ==
    /\ Callable(self, from_arg, to_arg, via)
    /\ CacheIndex(cache, make_key(self, from_arg, to_arg)) = 0
    /\ both_given(default_from(from_arg, clock), to_arg)
    /\ ~valid_interval(default_from(from_arg, clock), to_arg[1])
    /\ cache' = cache_store(cache, make_key(self, from_arg, to_arg), <<>>)
    /\ hist' = Remember(make_key(self, from_arg, to_arg), <<>>)
    /\ ret' = Some(<<>>)
    /\ articles' = [articles EXCEPT ![self] = Some(<<>>)]
    /\ op' = CallOp(self, from_arg, to_arg, via, FALSE)
    /\ outcome' = "returned"
    /\ reqs' = <<>>
    /\ fetched' = <<>>
    /\ calls' = calls + 1
    /\ UNCHANGED <<clock, info, attrs, nl_info, nl_attrs, pc, frame, okcount,
                   firstresp, fails>>
    /\ UNCHANGED tfvars

\* lines 257, 258, 272-274: both bounds given and not _to < _from
CallInvalid(self, from_arg, to_arg, via) ==
    /\ Callable(self, from_arg, to_arg, via)
    /\ CacheIndex(cache, make_key(self, from_arg, to_arg)) = 0
    /\ both_given(default_from(from_arg, clock), to_arg)
    /\ ~valid_interval(default_from(from_arg, clock), to_arg[1])
    /\ cache' = cache_store(cache, make_key(self, from_arg, to_arg), <<>>)
    /\ hist' = Remember(make_key(self, from_arg, to_arg), <<>>)
    /\ ret' = Some(<<>>)
    /\ articles' = assigned_by_property(via, self, <<>>, articles)
    /\ op' = CallOp(self, from_arg, to_arg, via, FALSE)
    /\ outcome' = "returned"
    /\ reqs' = <<>>
    /\ fetched' = <<>>
    /\ calls' = calls + 1
    /\ UNCHANGED <<clock, info, attrs, nl_info, nl_attrs, pc, frame, okcount,
                   firstresp, fails>>
    /\ UNCHANGED tfvars

\* the body starts: the paging loop for a valid interval, else the single page
CallStart(self, from_arg, to_arg, via) ==
    /\ Callable(self, from_arg, to_arg, via)
    /\ CacheIndex(cache, make_key(self, from_arg, to_arg)) = 0
    /\ LET _from == default_from(from_arg, clock)
       IN /\ both_given(_from, to_arg) => valid_interval(_from, to_arg[1])
          /\ pc' = IF both_given(_from, to_arg) THEN "first_page" ELSE "single_page"
          /\ frame' = [self |-> self, from_arg |-> from_arg, to_arg |-> to_arg,
                       _from |-> _from, articles |-> <<>>, next_to |-> 0,
                       via_property |-> via]
    /\ op' = CallOp(self, from_arg, to_arg, via, FALSE)
    /\ outcome' = "running"
    /\ ret' = None
    /\ reqs' = <<>>
    /\ fetched' = <<>>
    /\ calls' = calls + 1
    /\ UNCHANGED <<clock, info, attrs, nl_info, nl_attrs, articles, cache,
                   okcount, firstresp, hist, fails>>
    /\ UNCHANGED tfvars

\* a failed get_resp call is swallowed and the request is made again
PageFailsAndRetries(path) ==
    /\ fails < MaxFail
    /\ fails' = fails + 1
    /\ reqs' = Append(reqs, [path |-> path, ok |-> FALSE, resp |-> None])
    /\ UNCHANGED <<clock, info, attrs, nl_info, nl_attrs, articles, cache, pc,
                   frame, op, outcome, ret, fetched, okcount, firstresp, hist,
                   calls>>
    /\ UNCHANGED tfvars

\* a failed get_resp call after which the pages got so far are kept
PageFailsKeepingPartial(path) ==
    /\ fails < MaxFail
    /\ fails' = fails + 1
    /\ reqs' = Append(reqs, [path |-> path, ok |-> FALSE, resp |-> None])
    /\ pc' = "idle"
    /\ frame' = NoFrame
    /\ outcome' = "raised"
    /\ ret' = None
    /\ articles' = [articles EXCEPT ![frame.self] = Some(frame.articles)]
    /\ UNCHANGED <<clock, info, attrs, nl_info, nl_attrs, cache, op,
                   fetched, okcount, firstresp, hist, calls>>
    /\ UNCHANGED tfvars

\* a get_resp call of the body raises: the exception leaves the call
PageFails(path) ==
    /\ fails < MaxFail
    /\ fails' = fails + 1
    /\ reqs' = Append(reqs, [path |-> path, ok |-> FALSE, resp |-> None])
    /\ pc' = "idle"
    /\ frame' = NoFrame
    /\ outcome' = "raised"
    /\ ret' = None
    /\ UNCHANGED <<clock, info, attrs, nl_info, nl_attrs, articles, cache, op,
                   fetched, okcount, firstresp, hist, calls>>
    /\ UNCHANGED tfvars

\* one page of the paging loop arrived: lines 260-261 and 265-266
PageArrives(path, resp) ==
    /\ reqs' = Append(reqs, [path |-> path, ok |-> TRUE, resp |-> Some(resp)])
    /\ frame' = [frame EXCEPT
                   !.articles = @ \o articles_from_ids(page_batch(resp)),
                   !.next_to = strptime(resp.to)]
    /\ pc' = IF loop_continues(strptime(resp.to), frame.to_arg[1])
               THEN "while" ELSE "fetch"
    /\ UNCHANGED <<clock, info, attrs, nl_info, nl_attrs, articles, cache, op,
                   outcome, ret, fetched, okcount, firstresp, hist, calls, fails>>
    /\ UNCHANGED tfvars

\* line 259: the first page, requested at _from
FirstPage ==
    /\ pc = "first_page"
    /\ \/ PageFails(ArticlesPath(frame.self, frame._from))
       \/ \E resp \in PageResponses :
            PageArrives(ArticlesPath(frame.self, frame._from), resp)

\* a later page requested at _from once more, not at next_to
NextPageAtFrom ==
    /\ pc = "while"
    /\ Len(reqs) < MaxPages
    /\ \/ PageFails(ArticlesPath(frame.self, frame._from))
       \/ \E resp \in PageResponses :
            PageArrives(ArticlesPath(frame.self, frame._from), resp)

\* line 264: a later page, requested at next_to
NextPage ==
    /\ pc = "while"
    /\ Len(reqs) < MaxPages
    /\ \/ PageFails(ArticlesPath(frame.self, frame.next_to))
       \/ \E resp \in PageResponses :
            PageArrives(ArticlesPath(frame.self, frame.next_to), resp)

\* `return self.__articles`: the lru_cache stores the result, and the
\* `articles` property, when it made the call, assigns it
Return(result) ==
    /\ ret' = Some(result)
    /\ cache' = cache_store(cache, make_key(frame.self, frame.from_arg, frame.to_arg),
                            result)
    /\ hist' = Remember(make_key(frame.self, frame.from_arg, frame.to_arg), result)
    /\ articles' = assigned_by_property(frame.via_property, frame.self, result,
                       [articles EXCEPT ![frame.self] = Some(result)])
    /\ outcome' = "returned"
    /\ pc' = "idle"
    /\ frame' = NoFrame

\* lines 268-270 and 280: bulk fetch, filter, keep and return
BulkFetch ==
    /\ pc = "fetch"
    /\ fetched' = Append(fetched,
                    [arg |-> fetch_argument(frame.articles, frame._from, frame.to_arg[1]),
                     after |-> Len(reqs)])
    /\ Return(window_filter(frame.articles, frame._from, frame.to_arg[1]))
    /\ UNCHANGED <<clock, info, attrs, nl_info, nl_attrs, op, reqs, okcount,
                   firstresp, calls, fails>>
    /\ UNCHANGED tfvars

\* lines 276-277: `_to` is unset, one page at _from, kept as it came
SinglePage ==
    /\ pc = "single_page"
    /\ \/ PageFails(ArticlesPath(frame.self, frame._from))
       \/ \E resp \in PageResponses :
            /\ reqs' = Append(reqs, [path |-> ArticlesPath(frame.self, frame._from),
                                     ok |-> TRUE, resp |-> Some(resp)])
            /\ articles' = [articles EXCEPT ![frame.self] =
                              Some(articles_from_ids(single_batch(resp)))]
            /\ pc' = "single_fetch"
            /\ UNCHANGED <<clock, info, attrs, nl_info, nl_attrs, cache, frame, op,
                           outcome, ret, fetched, okcount, firstresp, hist, calls,
                           fails, topfeeds, tf_hist>>

\* lines 278 and 280: bulk fetch of the kept list, which is returned
SingleFetch ==
    /\ pc = "single_fetch"
    /\ fetched' = Append(fetched, [arg |-> articles[frame.self][1], after |-> Len(reqs)])
    /\ Return(articles[frame.self][1])
    /\ UNCHANGED <<clock, info, attrs, nl_info, nl_attrs, op, reqs, okcount,
                   firstresp, calls, fails>>
    /\ UNCHANGED tfvars

\* Publication.articles, the property, when the list is set
ArticlesRead(self) ==
    /\ pc = "idle"
    /\ articles[self] # None
    /\ op' = [name |-> "Publication.articles", self |-> self]
    /\ outcome' = "returned"
    /\ ret' = articles[self]
    /\ reqs' = <<>>
    /\ fetched' = <<>>
    /\ UNCHANGED <<clock, info, attrs, nl_info, nl_attrs, articles, cache, pc,
                   frame, okcount, firstresp, hist, calls, fails>>
    /\ UNCHANGED tfvars

\* ---- calls on the other instances ---------------------------------------
\* what the server answers for a publication without articles
EmptyPage == [publication_articles |-> <<>>,
              to |-> CHOOSE s \in Secs : \A u \in Secs : s <= u]

\* the argument combinations not yet used on the other instances
UnusedOtherKeys ==
    { key \in { make_key(q, f, t) : q \in OtherPubs, f \in FromArgs, t \in ToArgs } :
        \A k \in 1..Len(hist) : hist[k].key # key }

\* One whole get_articles_between call on another instance, between two calls
\* on an instance of Pubs, with arguments not used before (so the lru_cache
\* does not answer it); the publication is empty, so the one page it requests
\* ends the paging loop.
OtherCall ==
    /\ pc = "idle"
    /\ calls > 0 /\ calls < MaxCalls
    /\ UnusedOtherKeys # {}
    /\ LET key == CHOOSE k \in UnusedOtherKeys : TRUE
           self == key[1]
           from_arg == key[2]
           to_arg == key[3]
           _from == default_from(from_arg, clock)
           paged == both_given(_from, to_arg)
           rejected == paged /\ ~valid_interval(_from, to_arg[1])
           arts == articles_from_ids(IF paged THEN page_batch(EmptyPage)
                                              ELSE single_batch(EmptyPage))
           result == IF rejected THEN <<>>
                     ELSE IF paged THEN window_filter(arts, _from, to_arg[1])
                     ELSE arts
       IN /\ (paged /\ ~rejected) => ~loop_continues(strptime(EmptyPage.to), to_arg[1])
          /\ reqs' = IF rejected THEN <<>>
                     ELSE <<[path |-> ArticlesPath(self, _from), ok |-> TRUE,
                             resp |-> Some(EmptyPage)]>>
          /\ fetched' = IF rejected THEN <<>>
                        ELSE <<[arg |-> IF paged
                                          THEN fetch_argument(arts, _from, to_arg[1])
                                          ELSE arts,
                                after |-> Len(reqs')]>>
          /\ articles' = IF rejected THEN articles
                         ELSE [articles EXCEPT ![self] = Some(result)]
          /\ cache' = cache_store(cache, key, result)
          /\ hist' = Remember(key, result)
          /\ ret' = Some(result)
          /\ op' = CallOp(self, from_arg, to_arg, FALSE, FALSE)
    /\ outcome' = "returned"
    /\ UNCHANGED <<clock, info, attrs, nl_info, nl_attrs, pc, frame, okcount,
                   firstresp, calls, fails>>
    /\ UNCHANGED tfvars

NextEntity ==
    \/ \E p \in Pubs : InfoRead(p)
    \/ \E p \in Pubs : NewsletterInfoRead(p)
    \/ \E p \in Pubs : SaveInfo(p)
    \/ \E p \in Pubs : NewsletterSaveInfo(p)

NextPaging ==
    \/ Tick
    \/ \E p \in Pubs, f \in FromArgs, t \in ToArgs, via \in BOOLEAN :
         CallHit(p, f, t, via)
    \/ \E p \in Pubs, f \in FromArgs, t \in ToArgs, via \in BOOLEAN :
         CallInvalid(p, f, t, via)
    \/ \E p \in Pubs, f \in FromArgs, t \in ToArgs, via \in BOOLEAN :
         CallStart(p, f, t, via)
    \/ FirstPage
    \/ NextPage
    \/ BulkFetch
    \/ SinglePage
    \/ SingleFetch
    \/ \E p \in Pubs : ArticlesRead(p)

\* every operation, with one get_articles_between call in a run
NextOps ==
    \/ NextEntity
    \/ Tick
    \/ \E p \in Pubs, f \in FromArgs, t \in ToArgs, via \in BOOLEAN :
         calls = 0 /\ CallInvalid(p, f, t, via)
    \/ \E p \in Pubs, f \in FromArgs, t \in ToArgs, via \in BOOLEAN :
         calls = 0 /\ CallStart(p, f, t, via)
    \/ FirstPage
    \/ NextPage
    \/ BulkFetch
    \/ SinglePage
    \/ SingleFetch
    \/ \E p \in Pubs : ArticlesRead(p)

\* get_articles_between and the two properties of a Publication
NextPagingInfo ==
    \/ NextPaging
    \/ \E p \in Pubs : InfoRead(p)

\* calls on the instances of Pubs, with calls on other instances in between
NextMemo ==
    \/ Tick
    \/ \E p \in Pubs, f \in FromArgs, t \in ToArgs : CallHit(p, f, t, FALSE)
    \/ \E p \in Pubs, f \in FromArgs, t \in ToArgs : CallInvalid(p, f, t, FALSE)
    \/ \E p \in Pubs, f \in FromArgs, t \in ToArgs : CallStart(p, f, t, FALSE)
    \/ FirstPage
    \/ NextPage
    \/ BulkFetch
    \/ SinglePage
    \/ SingleFetch
    \/ OtherCall

NextTopFeeds ==
    \/ \E h \in Feeds : TopFeedsIds(h)
    \/ \E h \in Feeds : TopFeedsArticles(h)
    \/ \E h \in Feeds, max_len \in MaxLens, content \in BOOLEAN, markdown \in BOOLEAN :
         TopFeedsFetchArticles(h, max_len, content, markdown)

Next == NextEntity \/ NextPaging \/ NextTopFeeds

Spec == Init /\ [][Next]_vars
\* the entity handles alone
SpecEntity == Init /\ [][NextEntity]_vars
\* get_articles_between and the `articles` property alone
SpecPaging == Init /\ [][NextPaging]_vars
\* the same, where a call that was started runs on: a blocking get_resp call
\* comes back, with a response or an exception
SpecPagingFair == SpecPaging /\ WF_vars(FirstPage) /\ WF_vars(NextPage)
\* the entity handles together with one call
SpecOps == Init /\ [][NextOps]_vars
\* get_articles_between together with the reads of `articles` and `info`
SpecPagingInfo == Init /\ [][NextPagingInfo]_vars
\* get_articles_between on several instances, which share the one lru_cache
SpecMemo == Init /\ [][NextMemo]_vars
\* the TopFeeds handles alone
SpecTopFeeds == Init /\ [][NextTopFeeds]_vars

TypeOK ==
    /\ pc \in {"idle", "first_page", "while", "fetch", "single_page", "single_fetch"}
    /\ outcome \in {"running", "returned", "raised"}
    /\ Len(cache) <= maxsize

\* ---- the claims ---------------------------------------------------------
IsCall == op.name = "get_articles_between"
\* the call ran the body (the lru_cache did not answer it)
RanBody == IsCall /\ ~op.memo
\* the call ran the body with a valid interval: the paging loop
RanLoop == RanBody /\ op.to_arg # None /\ op.to_arg[1] < op._from
OkReqs == SelectSeq(reqs, LAMBDA r : r.ok)
\* the `to` of the k-th page that arrived, as a datetime
ReportedTo(k) == OkReqs[k].resp[1].to * TicksPerSec
\* the identifiers of the k-th page that arrived, as the server listed them
ReportedIds(k) == OkReqs[k].resp[1].publication_articles
\* the server's `to` went strictly down from page to page
Decreasing == \A k \in 2..Len(OkReqs) : ReportedTo(k) < ReportedTo(k - 1)
InLoop == pc \in {"first_page", "while"}

\* C1: a call with to < from that returns hands back only articles whose
\* published_at lies in [to, from], both ends included, whatever the pages were.
C1_ReturnedInWindow ==
    (IsCall /\ outcome = "returned" /\ op.to_arg # None /\ op.to_arg[1] < op._from)
        => \A k \in 1..Len(ret[1]) :
              /\ op.to_arg[1] <= ret[1][k].article_id * TicksPerSec
              /\ ret[1][k].article_id * TicksPerSec <= op._from

\* a paged call returned an article on the `to` bound and dropped another
C1_Witness ==
    /\ RanLoop /\ outcome = "returned"
    /\ \E k \in 1..Len(ret[1]) : ret[1][k].article_id * TicksPerSec = op.to_arg[1]
    /\ Len(fetched[1].arg) > Len(ret[1])

\* C2: with both bounds given and to >= from (to = from included) the call
\* returns the empty list, raises nothing, and calls neither get_resp nor
\* fetch_articles.
C2_InvalidIntervalEmpty ==
    (IsCall /\ op.from_arg # None /\ op.to_arg # None
            /\ op.to_arg[1] >= op.from_arg[1])
        => /\ pc = "idle"
           /\ outcome = "returned"
           /\ ret = Some(<<>>)
           /\ reqs = <<>>
           /\ fetched = <<>>

\* the body rejected a call with to = from
C2_Witness ==
    /\ RanBody /\ op.from_arg # None /\ op.to_arg = op.from_arg
    /\ outcome = "returned"

\* the requests and the result of a call of one page, kept as the articles
OnePageKept ==
           /\ Len(reqs) <= 1
           /\ \A k \in 1..Len(reqs) :
                reqs[k].path = [kind |-> "articles", id |-> op.self,
                                from |-> isoformat(IF op.from_arg = None
                                                     THEN op.now ELSE op.from_arg[1])]
           /\ outcome = "returned" =>
                /\ Len(reqs) = 1 /\ reqs[1].ok
                /\ ret = Some([k \in 1..Len(ReportedIds(1)) |->
                                 [article_id |-> ReportedIds(1)[k]]])
                /\ articles[op.self] = ret

C4_RepeatIsMemoized ==
    (IsCall /\ op.again)
        => /\ outcome = "returned"
           /\ reqs = <<>>
           /\ fetched = <<>>
           /\ Len(hist) >= 2
           /\ ret = Some(hist[Len(hist) - 1].val)

\* a paged call that had returned articles was repeated
C4_Witness ==
    /\ IsCall /\ op.again
    /\ op.to_arg # None /\ op.from_arg # None
    /\ ret # None /\ ret # Some(<<>>)

\* C5: the paging loop makes no request after the first page whose `to` is at
\* or before the requested `to`, leaves the loop only after such a page, and,
\* while the server's `to` goes strictly down, does leave the loop.
C5_StopsAtFirstCoveringPage ==
    RanLoop =>
        /\ \A k \in 1..Len(OkReqs) :
             ReportedTo(k) <= op.to_arg[1]
                => k = Len(reqs) /\ ~InLoop
        /\ (pc = "fetch" \/ outcome = "returned")
             => Len(OkReqs) > 0 /\ ReportedTo(Len(OkReqs)) <= op.to_arg[1]
C5_LoopTerminates ==
    /\ []C5_StopsAtFirstCoveringPage
    /\ (InLoop /\ Decreasing) ~> (~InLoop \/ ~Decreasing)

\* the loop ended after a second page, the server's `to` having gone down
C5_Witness ==
    /\ RanLoop /\ pc = "fetch"
    /\ Len(OkReqs) = 2
    /\ Decreasing

NoRepeat(arts) == \A i, j \in 1..Len(arts) : i # j => arts[i] # arts[j]
\* the list the loop has accumulated, or handed on when it was done
Accumulated ==
    IF pc # "idle" THEN frame.articles
    ELSE IF fetched # <<>> THEN fetched[1].arg ELSE <<>>

\* the cursor of the k-th page that arrived
Cursor(k) == IF k = 1 THEN op._from ELSE ReportedTo(k - 1)
\* a server at its most regular: every page lists, most recent first, only
\* articles published between the `to` it reports and the cursor asked for
RegularServer ==
    \A k \in 1..Len(OkReqs) :
        /\ \A i \in 1..Len(ReportedIds(k)) :
              /\ ReportedTo(k) <= ReportedIds(k)[i] * TicksPerSec
              /\ ReportedIds(k)[i] * TicksPerSec <= Cursor(k)
        /\ \A i, j \in 1..Len(ReportedIds(k)) :
              i < j => ReportedIds(k)[i] > ReportedIds(k)[j]

\* C6: while the server's `to` goes strictly down from page to page, the list
\* accumulated over the pages of a call, and so the returned list, holds no
\* article identifier twice.  (Violated even by the regular server.)
C6_NoDuplicateIdentifiers ==
    (RanLoop /\ Decreasing /\ RegularServer)
        => /\ NoRepeat(Accumulated)
           /\ outcome = "returned" => NoRepeat(ret[1])

RECURSIVE ListedUpTo(_)
\* the identifiers of the first k pages, each page as the server listed it
ListedUpTo(k) == IF k = 0 THEN <<>> ELSE ListedUpTo(k - 1) \o ReportedIds(k)
RECURSIVE AccumulatedUpTo(_)
\* the handles of the first k pages, each page oldest first
AccumulatedUpTo(k) ==
    IF k = 0 THEN <<>>
    ELSE AccumulatedUpTo(k - 1) \o
           [i \in 1..Len(ReportedIds(k)) |->
              [article_id |-> ReportedIds(k)[Len(ReportedIds(k)) + 1 - i]]]

\* C7: the list a paged call returns is in the server's order, most recent
\* first: the pages one after another, each as the server listed it, less the
\* articles outside the window.  (Violated even by the regular server.)
C7_ServerOrderKept ==
    (RanLoop /\ outcome = "returned" /\ RegularServer)
        => ret[1] = SelectSeq([k \in 1..Len(ListedUpTo(Len(OkReqs))) |->
                                  [article_id |-> ListedUpTo(Len(OkReqs))[k]]],
                              LAMBDA a : /\ op.to_arg[1] <= a.article_id * TicksPerSec
                                         /\ a.article_id * TicksPerSec <= op._from)

\* C8: a paged call whose body runs calls fetch_articles once, after its last
\* page request, with the whole accumulated list, not the filtered one.
C8_BulkFetchOnceAfterPaging ==
    RanLoop =>
        /\ Len(fetched) <= 1
        /\ InLoop => fetched = <<>>
        /\ \A k \in 1..Len(fetched) : fetched[k].after = Len(reqs)
        /\ outcome = "returned" =>
             /\ Len(fetched) = 1
             /\ fetched[1].arg = AccumulatedUpTo(Len(OkReqs))

\* a call of two pages returned after dropping an article from the fetched list
C8_Witness ==
    /\ RanLoop /\ outcome = "returned"
    /\ Len(reqs) = 2
    /\ Len(fetched) = 1 /\ Len(fetched[1].arg) > Len(ret[1])
    /\ Len(ret[1]) > 0

OwnPath(q) == \E k \in 1..Len(reqs) : reqs[k].path = q
OwnPathFailed(q) == \E k \in 1..Len(reqs) : reqs[k].path = q /\ ~reqs[k].ok

\* C9: get_resp succeeds at most once for the path of a Publication and of a
\* Newsletter; the cache holds the mapping of that first success, every info
\* read returns it, and no operation requests the path again once it is held.
C9_InfoFetchedOnce ==
    \A p \in Pubs :
        /\ okcount[PublicationPath(p)] <= 1
        /\ okcount[NewsletterPath(p)] <= 1
        /\ okcount[PublicationPath(p)] = 1 <=> info[p] # None
        /\ okcount[NewsletterPath(p)] = 1 <=> nl_info[p] # None
        /\ info[p] = firstresp[PublicationPath(p)]
        /\ nl_info[p] = firstresp[NewsletterPath(p)]
        /\ OwnPathFailed(PublicationPath(p)) => info[p] = None
        /\ OwnPathFailed(NewsletterPath(p)) => nl_info[p] = None
        /\ (op.name = "Publication.info" /\ op.self = p /\ outcome = "returned")
             => ret = firstresp[PublicationPath(p)] /\ ret # None
        /\ (op.name = "Newsletter.info" /\ op.self = p /\ outcome = "returned")
             => ret = firstresp[NewsletterPath(p)] /\ ret # None

\* save_info ran on a Publication whose info was held: no request for its path
C9_Witness ==
    /\ op.name = "Publication.save_info" /\ outcome = "returned"
    /\ okcount[PublicationPath(op.self)] = 1
    /\ okcount[NewsletterPath(op.self)] = 1
    /\ ~OwnPath(PublicationPath(op.self))
    /\ attrs[op.self].editors # None

\* C10: a get_resp call that raises ends the operation with that exception:
\* no request follows it, the request is not made again, nothing is returned.
C10_FailurePropagates ==
    \A k \in 1..Len(reqs) :
        ~reqs[k].ok => /\ k = Len(reqs)
                       /\ pc = "idle"
                       /\ outcome = "raised"
                       /\ ret = None

\* the second page request of a call raised
C10_Witness ==
    /\ IsCall /\ Len(reqs) = 2
    /\ ~reqs[2].ok
    /\ info[op.self] # None

\* C11: over the reads of `ids` and `articles` and the fetch_articles calls of
\* a TopFeeds handle, get_resp succeeds once for '/topfeeds/{tag}/{mode}' and
\* is not called again afterwards, one list object is built and every
\* `articles` read returns it, and every fetch_articles call hands that list
\* to the collaborator once, with the caller's max_len, content and markdown.
C11_TopFeedsCachedOnce ==
    \A h \in Feeds :
        /\ tf_hist[h].ok <= 1
        /\ tf_hist[h].built <= 1
        /\ tf_hist[h].ok = 1 <=> topfeeds[h].ids # None
        /\ tf_hist[h].built = 1 <=> topfeeds[h].articles # None
        /\ topfeeds[h].articles # None =>
             /\ topfeeds[h].articles[1].obj = <<h, 1>>
             /\ topfeeds[h].ids # None
             /\ topfeeds[h].articles[1].items =
                  [k \in 1..Len(topfeeds[h].ids[1]) |->
                     [article_id |-> topfeeds[h].ids[1][k]]]
        /\ (op.name = "TopFeeds.articles" /\ op.self = h /\ outcome = "returned")
             => ret = topfeeds[h].articles /\ ret # None
        /\ (op.name = "TopFeeds.fetch_articles" /\ op.self = h /\ outcome = "returned")
             => /\ Len(fetched) = 1
                /\ Some(fetched[1].arg) = topfeeds[h].articles
                /\ fetched[1].max_len = op.max_len
                /\ fetched[1].content = op.content
                /\ fetched[1].markdown = op.markdown
        /\ (op.name \in {"TopFeeds.ids", "TopFeeds.articles",
                         "TopFeeds.fetch_articles"} /\ op.self = h)
             => /\ Len(reqs) <= 1
                /\ \A k \in 1..Len(reqs) : reqs[k].path = [kind |-> "topfeeds",
                                                tag |-> h.tag, mode |-> h.mode]
                /\ (reqs # <<>> /\ outcome = "returned") => reqs[1].ok
                /\ outcome = "raised" => (fetched = <<>> /\ reqs # <<>>)

\* fetch_articles ran with max_len and content on a list that was already
\* built: no request, the held list handed on
C11_Witness ==
    /\ op.name = "TopFeeds.fetch_articles" /\ outcome = "returned"
    /\ reqs = <<>>
    /\ op.max_len # None /\ op.content /\ ~op.markdown
    /\ Len(fetched) = 1 /\ Len(fetched[1].arg.items) = 2
    /\ tf_hist[op.self].ok = 1

\* C12: whatever operations came before, a read of the `articles` property
\* returns the top recent page, the result of a get_articles_between call
\* without arguments on that Publication.  (Violated: after a call with a
\* window the property returns the list that call kept.)
C12_ArticlesIsTopRecentPage ==
    (op.name = "Publication.articles" /\ outcome = "returned")
        => \E k \in 1..Len(hist) :
              /\ hist[k].key = <<op.self, None, None>>
              /\ ret = Some(hist[k].val)

\* the arguments of the call were those of a call that returned earlier
ReturnedEarlier ==
    \E k \in 1..(Len(hist) - (IF outcome = "returned" THEN 1 ELSE 0)) :
        hist[k].key = <<op.self, op.from_arg, op.to_arg>>

\* C13: the memo of get_articles_between belongs to the one instance: a call
\* answered from it gets a result an earlier call on the same instance
\* returned for the same (from, to), and a call whose (from, to) returned
\* earlier on its instance is served without a get_resp request, however many
\* calls were made on other instances since.  (Violated: sixteen calls on
\* other instances push the entry out of the shared cache.)
C13_MemoPerInstance ==
    (IsCall /\ op.self \in Pubs) =>
        /\ op.memo =>
             \E k \in 1..(Len(hist) - 1) :
                /\ hist[k].key = <<op.self, op.from_arg, op.to_arg>>
                /\ ret = Some(hist[k].val)
        /\ ReturnedEarlier => reqs = <<>>

\* every page so far arrived with a `to` that is not before the cursor it was
\* asked with and is still after the requested `to`
ServerStandsStill ==
    /\ RanLoop /\ reqs # <<>>
    /\ \A k \in 1..Len(reqs) :
          /\ reqs[k].ok
          /\ reqs[k].resp[1].to * TicksPerSec >=
                (IF k = 1 THEN op._from ELSE reqs[k - 1].resp[1].to * TicksPerSec)
          /\ reqs[k].resp[1].to * TicksPerSec > op.to_arg[1]

\* C14: while the server keeps reporting a `to` that is not before the previous
\* cursor and is still after the requested `to`, the call stays in the paging
\* loop: its next step is one more page request, fetch_articles is not called,
\* nothing is returned or kept.
C14_StuckInLoop ==
    ServerStandsStill =>
        /\ pc = "while"
        /\ outcome = "running" /\ ret = None
        /\ fetched = <<>>
        /\ articles[op.self] = op.before
        /\ Len(reqs) < MaxPages => ENABLED NextPage

\* two pages in a row came back with the `to` of the first cursor
C14_Witness ==
    /\ ServerStandsStill
    /\ Len(reqs) = 2
    /\ reqs[1].resp[1].to = reqs[2].resp[1].to
    /\ reqs[2].resp[1].publication_articles # <<>>

\* C15: the first page request of the paging loop has cursor = from (the
\* clock at entry when from is unset), every later one has as cursor the `to`
\* the page before it reported, and a request is made only after the request
\* before it was answered.
C15_CursorChain ==
    RanLoop =>
        \A k \in 1..Len(reqs) :
            /\ reqs[k].path.kind = "articles" /\ reqs[k].path.id = op.self
            /\ k = 1 =>
                 LET from == IF op.from_arg = None THEN op.now ELSE op.from_arg[1]
                 IN reqs[k].path.from = [sec |-> from \div TicksPerSec,
                                         frac |-> from % TicksPerSec]
            /\ k > 1 =>
                 /\ reqs[k - 1].ok
                 /\ reqs[k].path.from = [sec |-> reqs[k - 1].resp[1].to, frac |-> 0]

\* a call without `from` asked its second page at the `to` of the first
C15_Witness ==
    /\ RanLoop /\ op.from_arg = None
    /\ Len(reqs) = 2 /\ reqs[2].ok
    /\ reqs[1].path.from.frac # 0
    /\ reqs[2].path.from # reqs[1].path.from

RECURSIVE PagesReversed(_)
\* the identifiers of the first k pages, page after page, each page last first
PagesReversed(k) ==
    IF k = 0 THEN <<>>
    ELSE PagesReversed(k - 1) \o
           [i \in 1..Len(reqs[k].resp[1].publication_articles) |->
              reqs[k].resp[1].publication_articles[
                 Len(reqs[k].resp[1].publication_articles) + 1 - i]]
\* the identifiers of a list of Article handles
IdsOf(arts) == [k \in 1..Len(arts) |-> arts[k].article_id]

\* C16: the list the paging loop accumulates is reverse(page 1), reverse(page
\* 2), ... in the order of the requests, and the returned list is that list
\* less the articles outside the window, the others in the same order.
C16_PagesReversedInRequestOrder ==
    RanLoop =>
        /\ outcome # "raised" => IdsOf(Accumulated) = PagesReversed(Len(OkReqs))
        /\ outcome = "returned" =>
             IdsOf(ret[1]) =
                SelectSeq(PagesReversed(Len(OkReqs)),
                          LAMBDA i : /\ op.to_arg[1] <= i * TicksPerSec
                                     /\ i * TicksPerSec <= op._from)

\* two pages of two articles each, the older one filtered out of both
C16_Witness ==
    /\ RanLoop /\ outcome = "returned"
    /\ Len(OkReqs) = 2
    /\ Len(ReportedIds(1)) = 2 /\ Len(ReportedIds(2)) = 2
    /\ ReportedIds(1) # ReportedIds(2)
    /\ Len(Accumulated) = 4
    /\ Len(ret[1]) = 2

\* C17: after every call that returns for a valid window or without `to`, a
\* call answered from the memo included, the Publication's articles state is
\* the list the call returned.  (Violated: a call answered from the memo
\* assigns nothing.)
C17_ArticlesStateIsResult ==
    (IsCall /\ outcome = "returned"
            /\ (op.to_arg = None \/ op.to_arg[1] < op._from))
        => articles[op.self] = ret

\* The server serves the publication that holds the articles S: the page for
\* a cursor lists, most recent first, the most recent articles of S published
\* no later than the cursor, at least one, and reports as `to` the time of
\* the oldest article it listed.
ServesPublication(S) ==
    \A k \in 1..Len(OkReqs) :
        LET page == ReportedIds(k)
            listed == { page[i] : i \in 1..Len(page) }
            avail == { i \in S : i * TicksPerSec <= Cursor(k) }
        IN /\ page # <<>>
           /\ listed \subseteq avail
           /\ \A i, j \in 1..Len(page) : i < j => page[i] > page[j]
           /\ \A a \in avail \ listed : \A b \in listed : a < b
           /\ \A b \in listed : ReportedTo(k) <= b * TicksPerSec
           /\ \E b \in listed : ReportedTo(k) = b * TicksPerSec

CallRejected == IsCall /\ op.to_arg # None /\ op.to_arg[1] >= op._from

\* C19: a get_articles_between call rejected for to >= from leaves the
\* articles state and the info cache of the Publication as they were before
\* the call.
C19_RejectedCallChangesNothing ==
    [][(CallRejected' /\ calls' = calls + 1)
          => /\ articles' = articles
             /\ articles'[op'.self] = op'.before
             /\ info' = info]_vars

\* a call was rejected on a Publication that held articles and its info
C19_Witness ==
    /\ CallRejected /\ outcome = "returned"
    /\ ret = Some(<<>>)
    /\ articles[op.self] # None /\ articles[op.self] # Some(<<>>)
    /\ info[op.self] # None

\* what a failed get_resp call leaves behind
NothingKeptOnFailure ==
    /\ \A p \in Pubs :
          (op.name = "Publication.info" /\ op.self = p /\ outcome = "raised")
             => info[p] = None /\ ret = None
    /\ (IsCall /\ outcome = "raised")
          => /\ articles[op.self] = op.before
             /\ fetched = <<>>
             /\ ret = None
             /\ \A k \in 1..Len(cache) :
                   cache[k].key = <<op.self, op.from_arg, op.to_arg>>
                      => \E j \in 1..Len(hist) : hist[j] = cache[k]
    /\ (RanBody /\ reqs # <<>>)
          => LET from == IF op.from_arg = None THEN op.now ELSE op.from_arg[1]
             IN reqs[1].path = [kind |-> "articles", id |-> op.self,
                                from |-> [sec |-> from \div TicksPerSec,
                                          frac |-> from % TicksPerSec]]

\* what the operation after a failure does
RetriedAfterFailure ==
    /\ \A p \in Pubs :
          (info[p] = None /\ op'.name = "Publication.info" /\ op'.self = p)
             => /\ Len(reqs') = 1
                /\ reqs'[1].path = [kind |-> "publication", id |-> p]
    /\ (IsCall /\ outcome = "raised" /\ calls' = calls + 1
               /\ op'.self = op.self /\ op'.from_arg = op.from_arg
               /\ op'.to_arg = op.to_arg)
          => /\ ~op'.memo
             /\ reqs' = <<>>
             /\ outcome' = "running" \/ CallRejected'

\* C20: a failed get_resp call leaves no partial state: after a failed info
\* fetch the info cache is unset and the next info read requests again; a
\* failure on a page request leaves the articles state as it was, fetch_articles
\* is not called, and the call is not memoized, so a repeat with the same
\* arguments runs the body and requests pages from cursor = from again.
C20_NoPartialStateOnFailure ==
    /\ []NothingKeptOnFailure
    /\ [][RetriedAfterFailure]_vars

\* the second page request failed on a Publication that held articles
C20_Witness ==
    /\ IsCall /\ outcome = "raised"
    /\ Len(reqs) = 2 /\ reqs[1].ok
    /\ reqs[1].resp[1].publication_articles # <<>>
    /\ op.before # None /\ op.before # Some(<<>>)
    /\ articles[op.self] = op.before

====
